---------------------------- MODULE Spec2Model ----------------------------
(***************************************************************************)
(* Recipe extraction service: URL classifier, tiered fallback driver       *)
(* (ExtractionPipeline), SSE progress stream (extraction_event_generator)  *)
(* and batch enrichment (RecipePopulator).                                 *)
(*                                                                         *)
(* Text is modelled as a sequence of tokens (short strings); a substring   *)
(* test on Python strings becomes a contiguous-subsequence test, and the   *)
(* token boundaries are chosen so that every keyword the code searches for *)
(* is a whole number of tokens.  None is the Python None.                  *)
(***************************************************************************)
EXTENDS Integers, Sequences, FiniteSets, TLC

None == "None"
\* None where a text (token sequence) is expected
NoneText == <<"None">>
\* None where a Recipe is expected
NoRecipe == [producer |-> None, method_used |-> None, source_url |-> NoneText]

-----------------------------------------------------------------------------
(* Text helpers *)

Min(a, b) == IF a < b THEN a ELSE b

\* str.lower() for one token
LowerTok(t) ==
    CASE t = "Fetching"     -> "fetching"
      [] t = "Extracting"   -> "extracting"
      [] t = "Analyzing"    -> "analyzing"
      [] t = "AI"           -> "ai"
      [] t = "Recipe"       -> "recipe"
      [] t = "Downloading"  -> "downloading"
      [] t = "Transcribing" -> "transcribing"
      [] t = "Whisper"      -> "whisper"
      [] t = "Cleaning"     -> "cleaning"
      [] t = "HTML"         -> "html"
      [] t = "WWW."         -> "www."
      [] t = "TikTok.com"   -> "tiktok.com"
      [] t = "Video"        -> "video"
      [] t = "Watch"        -> "watch"
      [] t = "Beef"         -> "beef"
      [] t = "Seafood"      -> "seafood"
      [] t = "Dessert"      -> "dessert"
      [] t = "Vegetarian"   -> "vegetarian"
      [] t = "Vegan"        -> "vegan"
      [] t = "Pasta"        -> "pasta"
      [] t = "Egg"          -> "egg"
      [] OTHER              -> t

\* str.lower()
Lower(s) == [i \in 1..Len(s) |-> LowerTok(s[i])]

\* Python's `pat in s` for strings
Contains(s, pat) ==
    \E i \in 1..(Len(s) - Len(pat) + 1) : SubSeq(s, i, i + Len(pat) - 1) = pat

-----------------------------------------------------------------------------
(* URL classifier *)

VIDEO_DOMAINS ==
    { <<"youtube.com">>, <<"www.", "youtube.com">>, <<"youtu.be">>,
      <<"m.", "youtube.com">>,
      <<"tiktok.com">>, <<"www.", "tiktok.com">>, <<"vm.", "tiktok.com">>,
      <<"instagram.com">>, <<"www.", "instagram.com">>,
      <<"facebook.com">>, <<"www.", "facebook.com">>, <<"fb.watch">>,
      <<"twitter.com">>, <<"x.com">>,
      <<"vimeo.com">>, <<"www.", "vimeo.com">>,
      <<"twitch.tv">>, <<"www.", "twitch.tv">>, <<"clips.", "twitch.tv">> }

VIDEO_PATH_PATTERNS ==
    << <<"/", "reel", "/">>, <<"/", "reels", "/">>, <<"/", "shorts", "/">>,
       <<"/", "video", "/">>, <<"/", "watch">>, <<"/", "v", "/">>,
       <<"/", "p", "/">>, <<"/", "status", "/">> >>

Schemes == {"https:", "http:"}

\* index of the first token of s at or after position i that is in stops,
\* Len(s)+1 when there is none
RECURSIVE FirstStop(_, _, _)
FirstStop(s, i, stops) ==
    IF i > Len(s) THEN Len(s) + 1
    ELSE IF s[i] \in stops THEN i
    ELSE FirstStop(s, i + 1, stops)

\* the tokens of s
Tokens(s) == { s[i] : i \in 1..Len(s) }

\* urllib.parse.urlparse: the netloc and path components; `raises` when
\* urlsplit raises ValueError("Invalid IPv6 URL"), which it does for a netloc
\* with one square bracket and not the other
urlparse(url) ==
    LET afterScheme == IF url # <<>> /\ Head(url) \in Schemes THEN Tail(url) ELSE url
        hasNetloc   == afterScheme # <<>> /\ Head(afterScheme) = "//"
        body        == IF hasNetloc THEN Tail(afterScheme) ELSE afterScheme
        netEnd      == IF hasNetloc THEN FirstStop(body, 1, {"/", "?", "#"}) ELSE 1
        netloc      == SubSeq(body, 1, netEnd - 1)
        rest        == SubSeq(body, netEnd, Len(body))
        pathEnd     == FirstStop(rest, 1, {"?", "#"})
    IN  [raises |-> ("[" \in Tokens(netloc)) # ("]" \in Tokens(netloc)),
         netloc |-> netloc,
         path   |-> SubSeq(rest, 1, pathEnd - 1)]

\* the except clause returning True
is_video_urlFailingToVideo(url) ==
    LET parsed       == urlparse(url)
        domain       == Lower(parsed.netloc)
        domain_clean == IF domain # <<>> /\ Head(domain) = "www."
                        THEN Tail(domain) ELSE domain
        path_lower   == Lower(parsed.path)
    IN  IF parsed.raises THEN TRUE
        ELSE \/ domain \in VIDEO_DOMAINS
             \/ domain_clean \in VIDEO_DOMAINS
             \/ \E p \in 1..Len(VIDEO_PATH_PATTERNS) :
                   Contains(path_lower, VIDEO_PATH_PATTERNS[p])

\* TRUE for the Video route, FALSE for the Website route; the body is one
\* try block whose `except Exception` returns False
is_video_url(url) ==
    LET parsed       == urlparse(url)
        domain       == Lower(parsed.netloc)
        domain_clean == IF domain # <<>> /\ Head(domain) = "www."
                        THEN Tail(domain) ELSE domain
        path_lower   == Lower(parsed.path)
    IN  IF parsed.raises THEN FALSE
        ELSE \/ domain \in VIDEO_DOMAINS
             \/ domain_clean \in VIDEO_DOMAINS
             \/ \E p \in 1..Len(VIDEO_PATH_PATTERNS) :
                   Contains(path_lower, VIDEO_PATH_PATTERNS[p])

\* the request URLs explored
TikTokUrl  == <<"https:", "//", "www.", "tiktok.com", "/", "@chef", "/", "video", "/", "123">>
BlogUrl    == <<"https:", "//", "example.com", "/", "blog", "/", "pasta-recipe">>
WatchUrl   == <<"https:", "//", "example.com", "/", "watch", "ing">>
Urls       == {TikTokUrl, BlogUrl, WatchUrl}

\* the strings given to the classifier on its own: an optional scheme, an
\* optional authority (userinfo, host, port; possibly with an unmatched
\* bracket), a path and an optional query.  Without an authority the string
\* has no userinfo, port or bracket.
ClassifierParts ==
    [ scheme   : {<<>>, <<"https:">>},
      slashes  : {<<>>, <<"//">>},
      bracket  : {<<>>, <<"[">>},
      userinfo : {<<>>, <<"user", "@">>},
      prefix   : {<<>>, <<"www.">>, <<"WWW.">>, <<"m.">>},
      host     : {<<>>, <<"youtube.com">>, <<"TikTok.com">>, <<"example.com">>},
      port     : {<<>>, <<":443">>},
      path     : {<<>>,
                  <<"/", "blog", "/", "pasta-recipe">>,
                  <<"/", "@chef", "/", "video", "/", "123">>,
                  <<"/", "Watch", "ing">>,
                  <<"/", "a", "?", "x=", "/", "video", "/">>} ]

ClassifierInputs ==
    { p.scheme \o p.slashes \o p.bracket \o p.userinfo \o p.prefix \o p.host
        \o p.port \o p.path :
      p \in { q \in ClassifierParts :
                 \/ q.slashes # <<>>
                 \/ q.bracket = <<>> /\ q.userinfo = <<>> /\ q.port = <<>> } }


\* bound: calls of the classifier on one input
MaxCalls == 2

-----------------------------------------------------------------------------
(* Tiers.  A percent is held in tenths: 0.1 is 1 and 1.0 is 10. *)

\* bound: progress reports a test-double tier makes before it returns
MaxStubReports == 1

SuccessMsg == <<"Recipe", " ", "extracted", " ", "successfully">>

\* the _report_progress calls of each shipped extract(), in program order
MetadataProgress ==
    << [message |-> <<"Fetching", " ", "video", " ", "metadata", "...">>, percent |-> 1],
       [message |-> <<"Extracting", " ", "captions", "...">>,             percent |-> 3],
       [message |-> <<"Analyzing", " ", "content", " ", "with", " ", "AI", "...">>, percent |-> 5],
       [message |-> SuccessMsg, percent |-> 10] >>

AudioProgress ==
    << [message |-> <<"Downloading", " ", "audio", "...">>, percent |-> 1],
       [message |-> <<"Transcribing", " ", "audio", " ", "with", " ", "Whisper", "...">>, percent |-> 3],
       [message |-> <<"Analyzing", " ", "transcript", " ", "with", " ", "AI", "...">>, percent |-> 7],
       [message |-> SuccessMsg, percent |-> 10] >>

VisionProgress ==
    << [message |-> <<"Downloading", " ", "video", "...">>, percent |-> 1],
       [message |-> <<"Extracting", " ", "video", " ", "frame", "s", "...">>, percent |-> 3],
       [message |-> <<"Analyzing", " ", "frame", "s", " ", "with", " ", "AI", " ", "vision", "...">>, percent |-> 6],
       [message |-> SuccessMsg, percent |-> 10] >>

WebsiteProgress ==
    << [message |-> <<"Fetching", " ", "webpage", "...">>, percent |-> 1],
       [message |-> <<"Cleaning", " ", "HTML", " ", "content", "...">>, percent |-> 3],
       [message |-> <<"Analyzing", " ", "content", " ", "with", " ", "AI", "...">>, percent |-> 5],
       [message |-> SuccessMsg, percent |-> 10] >>

ProgressOf(tier) ==
    CASE tier = "metadata" -> MetadataProgress
      [] tier = "audio"    -> AudioProgress
      [] tier = "vision"   -> VisionProgress
      [] tier = "website"  -> WebsiteProgress

\* ExtractionResult(success, recipe=None, should_fallback=False, error=None)
ExtractionResult(success, recipe, should_fallback, error) ==
    [success |-> success, recipe |-> recipe,
     should_fallback |-> should_fallback, error |-> error]

\* source_url not assigned by extract()
TierRecipeWithoutUrl(tier, url) ==
    [producer |-> tier, method_used |-> tier, source_url |-> NoneText]

\* the Recipe a shipped tier builds: method_used is set by its parser and
\* source_url by extract(); producer identifies the tier object that built it
TierRecipe(tier, url) ==
    [producer |-> tier, method_used |-> tier, source_url |-> url]

\* the error texts of the early returns of each extract(), by the number of
\* progress reports made before the return (1, 2 or 3)
FailureText(tier, step) ==
    CASE tier = "metadata" /\ step = 1 -> "Failed to fetch video metadata"
      [] tier = "metadata" /\ step = 3 -> "No recipe found in metadata"
      [] tier = "audio"    /\ step = 1 -> "Failed to download audio"
      [] tier = "audio"    /\ step = 2 -> "No significant speech detected"
      [] tier = "audio"    /\ step = 3 -> "No recipe found in transcript"
      [] tier = "vision"   /\ step = 1 -> "Failed to download video"
      [] tier = "vision"   /\ step = 2 -> "Failed to extract video frames"
      [] tier = "vision"   /\ step = 3 -> "No recipe found in video frames"
      [] tier = "website"  /\ step = 1 -> "Failed to fetch webpage"
      [] tier = "website"  /\ step = 2 -> "Insufficient content found on page"
      [] tier = "website"  /\ step = 3 -> "No recipe found on webpage"
      [] OTHER -> None

\* str(e) of an exception caught by the except clause of extract()
ExceptionText(tier) ==
    CASE tier = "metadata" -> "metadata exception"
      [] tier = "audio"    -> "audio exception"
      [] tier = "vision"   -> "vision exception"
      [] tier = "website"  -> "website exception"

\* only the metadata tier asking for the next tier
FallbackOfMetadataOnly(tier) == tier = "metadata"

\* should_fallback on every failure return of the tier
FallbackOf(tier) == tier \in {"metadata", "audio"}

\* the tier removes its download in a `finally` clause, which also runs after
\* the last report and can itself raise into the except clause
UnlinksInFinally(tier) == tier \in {"audio", "vision"}

\* the except clause building its result without the error text
ShippedResultsDroppingError(tier, url, step) ==
    (IF step = 4
     THEN {ExtractionResult(TRUE, TierRecipe(tier, url), FALSE, None)}
     ELSE {})
    \cup
    (IF step \in 1..3 /\ FailureText(tier, step) # None
     THEN {ExtractionResult(FALSE, NoRecipe, FallbackOf(tier), FailureText(tier, step))}
     ELSE {})
    \cup
    (IF step \in 1..3 \/ (step = 4 /\ UnlinksInFinally(tier))
     THEN {ExtractionResult(FALSE, NoRecipe, FallbackOf(tier), None)}
     ELSE {})

\* the results extract() of a shipped tier can return after `step` reports:
\* success after the last report, an early failure return, or the result
\* built by the except clause
ShippedResults(tier, url, step) ==
    (IF step = 4
     THEN {ExtractionResult(TRUE, TierRecipe(tier, url), FALSE, None)}
     ELSE {})
    \cup
    (IF step \in 1..3 /\ FailureText(tier, step) # None
     THEN {ExtractionResult(FALSE, NoRecipe, FallbackOf(tier), FailureText(tier, step))}
     ELSE {})
    \cup
    (IF step \in 1..3 \/ (step = 4 /\ UnlinksInFinally(tier))
     THEN {ExtractionResult(FALSE, NoRecipe, FallbackOf(tier), ExceptionText(tier))}
     ELSE {})

\* the results a test double implementing BaseExtractor.extract can return:
\* every combination of the four fields of the dataclass
StubResults(tier, url) ==
    { ExtractionResult(s, r, f, e) :
        s \in BOOLEAN,
        r \in {NoRecipe, [producer |-> tier, method_used |-> tier, source_url |-> NoneText]},
        f \in BOOLEAN,
        e \in {None, ExceptionText(tier)} }


-----------------------------------------------------------------------------
(* State *)

VARIABLES
    \* --- one streaming request: extraction_event_generator(url)
    url,             \* the request URL
    stubbed,         \* TRUE: the tiers are test doubles of BaseExtractor
    task,            \* extraction_task: "none", "Pending", "TierRunning",
                     \* "Succeeded", "Failed", "Raised"
    chain,           \* the tier chain of the route taken by execute()
    tier_idx,        \* position in chain of the tier whose extract() runs
    tier_step,       \* progress reports the running extract() has made
    invoked,         \* history: tiers whose extract() was called, in order
    returned,        \* history: the ExtractionResult each call returned
    reported,        \* history: (message, percent) passed to the callback
    last_error,      \* last_error of _extract_from_video
    task_result,     \* the Recipe execute() returned, NoRecipe for None
    task_exception,  \* str(e) of the exception execute() raised, or None
    progress_queue,  \* asyncio.Queue of (message, percent)
    current_tier,    \* current_tier of the generator
    gen,             \* generator position: "created", "waiting",
                     \* "yield_poll", "yield_drain", "yield_terminal", "closed"
                     \* (exhausted), "cancelled" (the consumer disconnected);
                     \* "none" where no streaming request is made
    stream,          \* history: events the generator has yielded
    drained,         \* history: how many of them the drain loop yielded
    \* --- one batch request: RecipePopulator.populate_recipes(...)
    count,                \* requested number of recipes
    dietary_restrictions, \* list of restriction names, <<>> for None or []
    exclude_ingredients,  \* list of ingredient names, <<>> for None or []
    pop,             \* "idle", "requested", "config_error", "fetching",
                     \* "enriching", "returned"
    attempts,        \* iterations of the fetch loop run so far, each of
                     \* which made one call to fetch_random_meal
    recipes,         \* `recipes` of fetch_themealdb_recipes (the meals kept)
    seen_ids,        \* `seen_ids` of fetch_themealdb_recipes
    tasks,           \* per meal: "waiting", "running", "failed", "raised",
                     \* "enriched"
    permits,         \* value of the asyncio.Semaphore
    completed,       \* history: the tasks in the order in which they ended
    populated_recipes, \* the list populate_recipes returned
    \* --- the classifier called on its own
    routes           \* history: what each call is_video_url(url) returned

streamVars == <<url, stubbed, task, chain, tier_idx, tier_step, invoked,
                returned, reported, last_error, task_result, task_exception,
                progress_queue, current_tier, gen, stream, drained>>

batchVars == <<count, dietary_restrictions, exclude_ingredients, pop, attempts,
               recipes, seen_ids, tasks, permits, completed,
               populated_recipes>>

classVars == <<routes>>

vars == <<streamVars, batchVars, classVars>>

-----------------------------------------------------------------------------
(* is_video_url called on its own *)

\* one call is_video_url(url): a pure function of its argument and of the
\* two module constants, which nothing assigns
Classify ==
    /\ Len(routes) < MaxCalls
    /\ routes' = Append(routes, is_video_url(url))
    /\ UNCHANGED <<streamVars, batchVars>>

-----------------------------------------------------------------------------
(* ExtractionPipeline *)

\* _create_video_tiers
VideoTiers == <<"metadata", "audio", "vision">>

\* the test of execute() inverted
ChainForInverted(u) == IF is_video_url(u) THEN <<"website">> ELSE VideoTiers

\* the chain execute() routes the URL to
ChainFor(u) == IF is_video_url(u) THEN VideoTiers ELSE <<"website">>

CurrentTier == chain[tier_idx]

TaskDone == task \in {"Succeeded", "Failed", "Raised"}

\* execute(): classify, construct the extractors of the route and call the
\* first extract().  An extractor's constructor reads the settings and raises
\* when they are incomplete; that exception leaves execute().
ExecuteStart ==
    /\ UNCHANGED <<batchVars, classVars>>
    /\ task = "Pending"
    /\ \/ /\ task' = "TierRunning"
          /\ chain' = ChainFor(url)
          /\ tier_idx' = 1
          /\ tier_step' = 0
          /\ invoked' = <<ChainFor(url)[1]>>
          /\ UNCHANGED task_exception
       \/ /\ task' = "Raised"
          /\ task_exception' = "settings error"
          /\ UNCHANGED <<chain, tier_idx, tier_step, invoked>>
    /\ UNCHANGED <<url, stubbed, returned, reported, last_error, task_result,
                   progress_queue, current_tier, gen, stream, drained>>

\* how many progress reports the running extract() can still make
MaxReportsOf(tier) == IF stubbed THEN MaxStubReports ELSE Len(ProgressOf(tier))

\* progress_callback: await progress_queue.put((message, percent)) on an
\* unbounded queue
progress_callback(q, item) == Append(q, item)

\* a queue of one slot: put waits while an event is unread
QueueHasRoomForOne(q) == Len(q) < 1

\* asyncio.Queue() is created without maxsize, so put never waits
QueueHasRoom(q) == TRUE

\* BaseExtractor._report_progress called by the running extract()
TierReport ==
    /\ UNCHANGED <<batchVars, classVars>>
    /\ task = "TierRunning"
    /\ tier_step < MaxReportsOf(CurrentTier)
    /\ QueueHasRoom(progress_queue)
    /\ LET item == ProgressOf(CurrentTier)[tier_step + 1]
       IN  /\ progress_queue' = progress_callback(progress_queue, item)
           /\ reported' = Append(reported, item)
    /\ tier_step' = tier_step + 1
    /\ UNCHANGED <<url, stubbed, task, chain, tier_idx, invoked, returned,
                   last_error, task_result, task_exception, current_tier,
                   gen, stream, drained>>

\* the results the running extract() can return now
TierResults ==
    IF stubbed THEN StubResults(CurrentTier, url)
    ELSE ShippedResults(CurrentTier, url, tier_step)

\* `result.success` alone
UsableOnSuccessAlone(r) == r.success

\* `result.success and result.recipe`
Usable(r) == r.success /\ r.recipe # NoRecipe

\* the failed tier tried again
SuccessorRetrying(r, idx, ch) ==
    IF r.should_fallback THEN idx ELSE 0

\* a tier skipped after a fallback
SuccessorSkipping(r, idx, ch) ==
    IF r.should_fallback /\ idx < Len(ch) THEN Min(idx + 2, Len(ch)) ELSE 0

\* should_fallback not consulted
SuccessorAlways(r, idx, ch) ==
    IF idx < Len(ch) THEN idx + 1 ELSE 0

\* the chain restarted after its last tier
SuccessorWrapping(r, idx, ch) ==
    IF r.should_fallback THEN (idx % Len(ch)) + 1 ELSE 0

\* the `for extractor in tiers` loop after the failed result r of the tier at
\* position idx: the position of the tier it runs next, 0 when it ends
\* (`break`, or the chain is exhausted)
Successor(r, idx, ch) ==
    IF r.should_fallback /\ idx < Len(ch) THEN idx + 1 ELSE 0

\* extract() returns r and the driver acts on it: the body of the loop of
\* _extract_from_video, or the tail of _extract_from_website
TierReturn ==
    /\ UNCHANGED <<batchVars, classVars>>
    /\ task = "TierRunning"
    /\ \E r \in TierResults :
        /\ returned' = Append(returned, r)
        /\ IF Usable(r)
           THEN /\ task' = "Succeeded"
                /\ task_result' = r.recipe
                /\ UNCHANGED <<last_error, tier_idx, tier_step, invoked>>
           ELSE /\ last_error' = IF chain = VideoTiers THEN r.error ELSE last_error
                /\ task_result' = task_result
                /\ IF chain = VideoTiers /\ Successor(r, tier_idx, chain) # 0
                   THEN /\ task' = "TierRunning"
                        /\ tier_idx' = Successor(r, tier_idx, chain)
                        /\ tier_step' = 0
                        /\ invoked' = Append(invoked,
                                             chain[Successor(r, tier_idx, chain)])
                   ELSE /\ task' = "Failed"
                        /\ UNCHANGED <<tier_idx, tier_step, invoked>>
    /\ UNCHANGED <<url, stubbed, chain, reported, task_exception,
                   progress_queue, current_tier, gen, stream, drained>>

\* the vision tier without its except clause
CatchesAllButVision(tier) == tier \in {"metadata", "audio", "website"}

\* the whole body of the shipped tier's extract() is inside
\* `try: ... except Exception`, which returns a failure result
CatchesAll(tier) == tier \in {"metadata", "audio", "vision", "website"}

\* extract() raises, which a test double can do and a shipped tier only
\* where its body is not guarded: neither driver method catches, so the
\* exception leaves execute()
TierRaise ==
    /\ UNCHANGED <<batchVars, classVars>>
    /\ task = "TierRunning"
    /\ stubbed \/ ~CatchesAll(CurrentTier)
    /\ task' = "Raised"
    /\ task_exception' = ExceptionText(CurrentTier)
    /\ UNCHANGED <<url, stubbed, chain, tier_idx, tier_step, invoked, returned,
                   reported, last_error, task_result, progress_queue,
                   current_tier, gen, stream, drained>>


-----------------------------------------------------------------------------
(* extraction_event_generator *)

\* a message without keyword leaves the event untagged
TierTagForgetting(message, current) ==
    LET m == Lower(message)
    IN  IF Contains(m, <<"metadata">>) THEN "metadata"
        ELSE IF Contains(m, <<"audio">>) \/ Contains(m, <<"whisper">>) THEN "audio"
        ELSE IF Contains(m, <<"vision">>) \/ Contains(m, <<"frame">>) THEN "vision"
        ELSE IF Contains(m, <<"webpage">>) \/ Contains(m, <<"website">>) THEN "website"
        ELSE None

\* the keyword rule of the polling loop: the new value of current_tier
TierTag(message, current) ==
    LET m == Lower(message)
    IN  IF Contains(m, <<"metadata">>) THEN "metadata"
        ELSE IF Contains(m, <<"audio">>) \/ Contains(m, <<"whisper">>) THEN "audio"
        ELSE IF Contains(m, <<"vision">>) \/ Contains(m, <<"frame">>) THEN "vision"
        ELSE IF Contains(m, <<"webpage">>) \/ Contains(m, <<"website">>) THEN "website"
        ELSE current

\* percent forwarded as a percentage
SSEProgressEventAsPercentage(message, percent, tier) ==
    [type |-> "progress", message |-> message, percent |-> percent * 100, tier |-> tier]

SSEProgressEvent(message, percent, tier) ==
    [type |-> "progress", message |-> message, percent |-> percent, tier |-> tier]

SSECompleteEvent(recipe) == [type |-> "complete", recipe |-> recipe]

SSEErrorEvent(message) == [type |-> "error", message |-> message]

\* complete yielded inside the try block and error again by the handler
TerminalEventsTwice ==
    IF task = "Raised" THEN <<SSEErrorEvent(task_exception)>>
    ELSE IF task_result # NoRecipe
         THEN <<SSECompleteEvent(task_result), SSEErrorEvent("error")>>
    ELSE <<SSEErrorEvent("Could not extract recipe from this URL")>>

\* the test `if recipe` inverted
TerminalEventsInverted ==
    IF task = "Raised" THEN <<SSEErrorEvent(task_exception)>>
    ELSE IF task_result = NoRecipe THEN <<SSECompleteEvent(task_result)>>
    ELSE <<SSEErrorEvent("Could not extract recipe from this URL")>>

\* the events yielded by the try/except block around
\* `recipe = await extraction_task`
TerminalEvents ==
    IF task = "Raised" THEN <<SSEErrorEvent(task_exception)>>
    ELSE IF task_result # NoRecipe THEN <<SSECompleteEvent(task_result)>>
    ELSE <<SSEErrorEvent("Could not extract recipe from this URL")>>

\* ExtractionMethod(...).value: the string of a member of the StrEnum
ExtractionMethodValue(m) ==
    CASE m = "metadata" -> "metadata"
      [] m = "audio"    -> "audio"
      [] m = "vision"   -> "vision"
      [] m = "website"  -> "website"

ExtractResponse(success, recipe, error, method_used) ==
    [success |-> success, recipe |-> recipe, error |-> error,
     method_used |-> method_used]

\* the success response built without method_used
extract_recipeWithoutMethod(outcome, recipe, exception) ==
    IF outcome = "Raised"
    THEN [status |-> 500, detail |-> <<"Extraction failed: ", exception>>]
    ELSE IF recipe # NoRecipe
         THEN ExtractResponse(TRUE, recipe, None, None)
    ELSE ExtractResponse(FALSE, NoRecipe,
                         "Could not extract recipe from this video", None)

\* extract_recipe: the response of the single-shot endpoint to a run of
\* execute() that ended as `outcome`, returning `recipe` or raising
\* `exception`; an escaping exception becomes an HTTP 500 error
extract_recipe(outcome, recipe, exception) ==
    IF outcome = "Raised"
    THEN [status |-> 500, detail |-> <<"Extraction failed: ", exception>>]
    ELSE IF recipe # NoRecipe
         THEN ExtractResponse(TRUE, recipe, None,
                              ExtractionMethodValue(recipe.method_used))
    ELSE ExtractResponse(FALSE, NoRecipe,
                         "Could not extract recipe from this video", None)

\* the tier tag the drain loop gives to a buffered event
DrainTag(message, current) == current

\* the drain loop left out
TerminalWithoutDrain ==
    /\ stream' = stream \o TerminalEvents
    /\ gen' = "yield_terminal"
    /\ UNCHANGED <<progress_queue, current_tier, drained>>

\* the polling loop has ended: run to the next yield, which is either one
\* drained progress event or, with the queue empty, the terminal event
DrainOrTerminal ==
    IF progress_queue # <<>>
    THEN LET item == Head(progress_queue)
         IN  /\ progress_queue' = Tail(progress_queue)
             /\ stream' = Append(stream,
                    SSEProgressEvent(item.message, item.percent,
                                     DrainTag(item.message, current_tier)))
             /\ drained' = drained + 1
             /\ gen' = "yield_drain"
             /\ UNCHANGED current_tier
    ELSE /\ stream' = stream \o TerminalEvents
         /\ gen' = "yield_terminal"
         /\ UNCHANGED <<progress_queue, current_tier, drained>>

\* `while True`: the loop condition never consults the task
PollLoopNeverLeft ==
    /\ gen' = "waiting"
    /\ UNCHANGED <<progress_queue, current_tier, stream, drained>>

\* `while not extraction_task.done()` evaluated on (re-)entering the loop
PollLoopOrDrain ==
    IF TaskDone
    THEN DrainOrTerminal
    ELSE /\ gen' = "waiting"
         /\ UNCHANGED <<progress_queue, current_tier, stream, drained>>

\* first __anext__: create the queue and the task, enter the polling loop
GenStart ==
    /\ UNCHANGED <<batchVars, classVars>>
    /\ gen = "created"
    /\ task = "none"
    /\ task' = "Pending"
    /\ gen' = "waiting"
    /\ UNCHANGED <<url, stubbed, chain, tier_idx, tier_step, invoked, returned,
                   reported, last_error, task_result, task_exception,
                   progress_queue, current_tier, stream, drained>>

\* wait_for(progress_queue.get(), 0.5) returns an item: tag it and yield it
GenReceive ==
    /\ UNCHANGED <<batchVars, classVars>>
    /\ gen = "waiting"
    /\ progress_queue # <<>>
    /\ LET item == Head(progress_queue)
           tag  == TierTag(item.message, current_tier)
       IN  /\ progress_queue' = Tail(progress_queue)
           /\ current_tier' = tag
           /\ stream' = Append(stream,
                               SSEProgressEvent(item.message, item.percent, tag))
    /\ gen' = "yield_poll"
    /\ UNCHANGED drained
    /\ UNCHANGED <<url, stubbed, task, chain, tier_idx, tier_step, invoked,
                   returned, reported, last_error, task_result, task_exception>>

\* wait_for times out: `continue`, the loop condition is evaluated again
GenTimeout ==
    /\ UNCHANGED <<batchVars, classVars>>
    /\ gen = "waiting"
    /\ PollLoopOrDrain
    /\ UNCHANGED <<url, stubbed, task, chain, tier_idx, tier_step, invoked,
                   returned, reported, last_error, task_result, task_exception>>

\* the consumer asks for the next event after a progress event
GenResume ==
    /\ UNCHANGED <<batchVars, classVars>>
    /\ gen \in {"yield_poll", "yield_drain"}
    /\ IF gen = "yield_poll" THEN PollLoopOrDrain ELSE DrainOrTerminal
    /\ UNCHANGED <<url, stubbed, task, chain, tier_idx, tier_step, invoked,
                   returned, reported, last_error, task_result, task_exception>>

\* the consumer asks for the next event after the terminal event:
\* asyncio.sleep(0.1), then the generator is exhausted
GenFinish ==
    /\ UNCHANGED <<batchVars, classVars>>
    /\ gen = "yield_terminal"
    /\ gen' = "closed"
    /\ UNCHANGED <<url, stubbed, task, chain, tier_idx, tier_step, invoked,
                   returned, reported, last_error, task_result, task_exception,
                   progress_queue, current_tier, stream, drained>>

\* the consumer disconnects: the response is cancelled and the generator
\* is unwound from the await or yield where it is suspended.  It has no
\* finally clause and never cancels extraction_task, which it only awaits
\* once done, so the task is left as it is.  (After the terminal event a
\* disconnect only ends the generator, which is GenFinish.)
GenDisconnect ==
    /\ UNCHANGED <<batchVars, classVars>>
    /\ gen \in {"waiting", "yield_poll", "yield_drain"}
    /\ gen' = "cancelled"
    /\ UNCHANGED <<url, stubbed, task, chain, tier_idx, tier_step, invoked,
                   returned, reported, last_error, task_result, task_exception,
                   progress_queue, current_tier, stream, drained>>

-----------------------------------------------------------------------------
(* RecipePopulator *)

\* bound: the largest count requested
MaxCount == 2

\* populate_recipes(max_concurrent=3); the route passes no other value
DefaultMaxConcurrent == 3

\* the cap of fetch_count
FetchCap == 50

\* the factor of max_attempts
AttemptFactor == 5

PageA == <<"https:", "//", "site.example", "/", "a">>
PageB == <<"https:", "//", "site.example", "/", "b">>
PageC == <<"https:", "//", "site.example", "/", "c">>

\* the meals the candidate source can answer with (TheMealDBMeal); meals 2
\* and 3 have different ids and the same strSource
Catalogue ==
    { [id |-> "1", source_url |-> PageA, category |-> <<"Beef">>],
      [id |-> "2", source_url |-> PageB, category |-> <<"Vegetarian">>],
      [id |-> "3", source_url |-> PageB, category |-> <<"Pasta">>],
      [id |-> "4", source_url |-> PageC, category |-> <<"Dessert">>] }

\* the ingredient names of the recipe found at a page
IngredientsAt(page) ==
    CASE page = PageA -> << <<"Beef">>, <<"salt">> >>
      [] page = PageB -> << <<"rice">>, <<"flour">> >>
      [] page = PageC -> << <<"Egg", " ", "yolk">>, <<"sugar">> >>

RestrictionChoices == { <<>>, <<"Vegetarian">>, <<"vegan">> }

ExcludeChoices == { <<>>, << <<"egg">> >>, << <<"rice", " ", "flour">> >> }

\* hashlib.sha256(url.encode()).hexdigest()[:16]: a function of the URL alone
_generate_source_id(u) == <<"sha256", u>>

\* _recipe_to_populated: the fields the batch logic reads
PopulatedRecipe(meal) ==
    [source_id   |-> _generate_source_id(meal.source_url),
     source_url  |-> meal.source_url,
     ingredients |-> IngredientsAt(meal.source_url)]

\* a result that is no PopulatedRecipe (enrich_recipe returned None)
NoPopulated == [source_id |-> <<"None">>, source_url |-> NoneText, ingredients |-> <<>>]

MeatCategories == {"beef", "chicken", "lamb", "pork", "goat", "seafood"}

\* dessert not counted as non-vegan
NonVeganCategoriesWithoutDessert == MeatCategories

NonVeganCategories == MeatCategories \cup {"dessert"}

\* the coarse dietary filter on the meal category
_matches_dietary_restrictions(category, restrictions) ==
    LET category_lower == Lower(category)
        Rejects(r) ==
            \/ /\ LowerTok(r) = "vegetarian"
               /\ \E c \in MeatCategories : Contains(category_lower, <<c>>)
            \/ /\ LowerTok(r) = "vegan"
               /\ \E c \in NonVeganCategories : Contains(category_lower, <<c>>)
    IN  \/ restrictions = <<>>
        \/ \A i \in 1..Len(restrictions) : ~Rejects(restrictions[i])

\* at least one candidate fetched whatever the count
FetchCountAtLeastOne == IF count * 2 < 1 THEN 1 ELSE Min(count * 2, FetchCap)

\* fetch_count of populate_recipes
FetchCount == Min(count * 2, FetchCap)

\* max_attempts of fetch_themealdb_recipes, which is called with
\* count=fetch_count
MaxAttempts == FetchCount * AttemptFactor

\* the loop without its `break`
FetchLoopOverBudgetOnly == attempts >= MaxAttempts

\* one attempt more than max_attempts
FetchLoopOverOffByOne == attempts > MaxAttempts \/ Len(recipes) >= FetchCount

\* the fetch loop is over: range exhausted, or `break`
FetchLoopOver == attempts >= MaxAttempts \/ Len(recipes) >= FetchCount

\* a failed call starts the budget again
FetchNothingRestartingBudget ==
    /\ pop = "fetching"
    /\ ~FetchLoopOver
    /\ attempts' = 0
    /\ UNCHANGED <<count, dietary_restrictions, exclude_ingredients, pop,
                   recipes, seen_ids, tasks, permits, completed,
                   populated_recipes>>
    /\ UNCHANGED <<streamVars, classVars>>

\* one iteration of the fetch loop in which fetch_random_meal fails or
\* returns no meal
FetchNothing ==
    /\ pop = "fetching"
    /\ ~FetchLoopOver
    /\ attempts' = attempts + 1
    /\ UNCHANGED <<count, dietary_restrictions, exclude_ingredients, pop,
                   recipes, seen_ids, tasks, permits, completed,
                   populated_recipes>>
    /\ UNCHANGED <<streamVars, classVars>>

\* the duplicate test left out
KeepMealWithoutDedup(meal, kept, seen, restrictions) ==
    IF ~_matches_dietary_restrictions(meal.category, restrictions) THEN kept
    ELSE Append(kept, meal)

\* the meals kept after one more answer of the source
KeepMeal(meal, kept, seen, restrictions) ==
    IF meal.id \in seen THEN kept
    ELSE IF ~_matches_dietary_restrictions(meal.category, restrictions) THEN kept
    ELSE Append(kept, meal)

\* one iteration of the fetch loop in which fetch_random_meal returns a meal
FetchMeal ==
    /\ pop = "fetching"
    /\ ~FetchLoopOver
    /\ \E meal \in Catalogue :
        /\ recipes' = KeepMeal(meal, recipes, seen_ids, dietary_restrictions)
        /\ seen_ids' = seen_ids \cup {meal.id}
    /\ attempts' = attempts + 1
    /\ UNCHANGED <<count, dietary_restrictions, exclude_ingredients, pop,
                   tasks, permits, completed, populated_recipes>>
    /\ UNCHANGED <<streamVars, classVars>>

\* the fetch loop ends and fetch_themealdb_recipes returns (its locals
\* attempts and seen_ids are gone); `if not meals: return []`, else the
\* semaphore and one task per meal are created and handed to gather
Dispatch ==
    /\ pop = "fetching"
    /\ FetchLoopOver
    /\ IF recipes = <<>>
       THEN /\ pop' = "returned"
            /\ populated_recipes' = <<>>
            /\ UNCHANGED <<tasks, permits>>
       ELSE /\ pop' = "enriching"
            /\ tasks' = [i \in 1..Len(recipes) |-> "waiting"]
            /\ permits' = DefaultMaxConcurrent
            /\ UNCHANGED populated_recipes
    /\ attempts' = 0
    /\ seen_ids' = {}
    /\ UNCHANGED <<count, dietary_restrictions, exclude_ingredients, recipes,
                   completed>>
    /\ UNCHANGED <<streamVars, classVars>>

\* the permit count not consulted
CanAcquireAlways(p) == TRUE

\* `async with semaphore` may be entered
CanAcquire(p) == p > 0

\* process_with_semaphore(meal) enters `async with semaphore` and calls
\* enrich_recipe, which calls WebsiteExtractor.extract
TaskAcquire ==
    /\ pop = "enriching"
    /\ \E i \in DOMAIN tasks :
        /\ tasks[i] = "waiting"
        /\ CanAcquire(permits)
        /\ tasks' = [tasks EXCEPT ![i] = "running"]
        /\ permits' = permits - 1
    /\ UNCHANGED <<count, dietary_restrictions, exclude_ingredients, pop,
                   attempts, recipes, seen_ids, completed, populated_recipes>>
    /\ UNCHANGED <<streamVars, classVars>>

\* how enrich_recipe can end: extract() returned a failure ("failed"),
\* something in the try block raised ("raised"), or a PopulatedRecipe was
\* built ("enriched")
Outcomes == {"failed", "raised", "enriched"}

\* the permit kept when the enrichment raised
TaskFinishKeepingPermitOnRaise ==
    /\ pop = "enriching"
    /\ \E i \in DOMAIN tasks, o \in Outcomes :
        /\ tasks[i] = "running"
        /\ tasks' = [tasks EXCEPT ![i] = o]
        /\ permits' = IF o = "raised" THEN permits ELSE permits + 1
        /\ completed' = Append(completed, i)
    /\ UNCHANGED <<count, dietary_restrictions, exclude_ingredients, pop,
                   attempts, recipes, seen_ids, populated_recipes>>
    /\ UNCHANGED <<streamVars, classVars>>

\* enrich_recipe ends and `async with` releases the permit
TaskFinish ==
    /\ pop = "enriching"
    /\ \E i \in DOMAIN tasks, o \in Outcomes :
        /\ tasks[i] = "running"
        /\ tasks' = [tasks EXCEPT ![i] = o]
        /\ permits' = permits + 1
        /\ completed' = Append(completed, i)
    /\ UNCHANGED <<count, dietary_restrictions, exclude_ingredients, pop,
                   attempts, recipes, seen_ids, populated_recipes>>
    /\ UNCHANGED <<streamVars, classVars>>

\* what process_with_semaphore returned for an ended task: enrich_recipe
\* catches every Exception and returns None
ResultOf(outcome, meal) ==
    IF outcome = "enriched" THEN PopulatedRecipe(meal) ELSE NoPopulated

\* one raising task makes the whole gather fail: nothing is returned
GatherResultsFailFast ==
    [i \in DOMAIN tasks |->
        IF \E j \in DOMAIN tasks : tasks[j] = "raised"
        THEN NoPopulated ELSE ResultOf(tasks[i], recipes[i])]

\* the results as asyncio.as_completed would give them
GatherResultsAsCompleted ==
    [k \in DOMAIN completed |-> ResultOf(tasks[completed[k]], recipes[completed[k]])]

\* the results list of asyncio.gather: one per task, in task order
GatherResults == [i \in DOMAIN tasks |-> ResultOf(tasks[i], recipes[i])]

\* " ".join(ing.get("name", "").lower() for ing in result.ingredients)
RECURSIVE JoinLower(_, _)
JoinLower(names, i) ==
    IF i > Len(names) THEN <<>>
    ELSE IF i = Len(names) THEN Lower(names[i])
    ELSE Lower(names[i]) \o <<" ">> \o JoinLower(names, i + 1)

\* the ingredient-exclusion test of populate_recipes: TRUE when the recipe
\* is skipped
Excluded(result, exclude) ==
    /\ exclude # <<>>
    /\ \E k \in 1..Len(exclude) :
          Contains(JoinLower(result.ingredients, 1), Lower(exclude[k]))

\* the comparison off by one
SelectionFullLate(acc, n) == Len(acc) > n

\* `if len(populated_recipes) >= count: break`
SelectionFull(acc, n) == Len(acc) >= n

\* the result-filter loop of populate_recipes from position i on
RECURSIVE Select(_, _, _, _, _)
Select(results, i, acc, n, exclude) ==
    IF i > Len(results) THEN acc
    ELSE IF results[i] = NoPopulated THEN Select(results, i + 1, acc, n, exclude)
    ELSE IF Excluded(results[i], exclude) THEN Select(results, i + 1, acc, n, exclude)
    ELSE LET acc2 == Append(acc, results[i])
         IN  IF SelectionFull(acc2, n) THEN acc2
             ELSE Select(results, i + 1, acc2, n, exclude)

\* returning as soon as count enrichments have succeeded
GatherDoneAtCount ==
    \/ \A i \in DOMAIN tasks : tasks[i] \in Outcomes
    \/ Cardinality({i \in DOMAIN tasks : tasks[i] = "enriched"}) >= count

\* `await asyncio.gather(*tasks, ...)` resumes when every task has ended
GatherDone == \A i \in DOMAIN tasks : tasks[i] \in Outcomes

\* gather returns once every task has ended; filter and return
GatherReturn ==
    /\ pop = "enriching"
    /\ GatherDone
    /\ populated_recipes' = Select(GatherResults, 1, <<>>, count, exclude_ingredients)
    /\ pop' = "returned"
    /\ UNCHANGED <<count, dietary_restrictions, exclude_ingredients, attempts,
                   recipes, seen_ids, tasks, permits, completed>>
    /\ UNCHANGED <<streamVars, classVars>>

-----------------------------------------------------------------------------
(* Specifications *)

\* no pipeline has run and nothing was streamed
NoRun ==
    /\ task = "none"
    /\ chain = <<>>
    /\ tier_idx = 0
    /\ tier_step = 0
    /\ invoked = <<>>
    /\ returned = <<>>
    /\ reported = <<>>
    /\ last_error = None
    /\ task_result = NoRecipe
    /\ task_exception = None
    /\ progress_queue = <<>>
    /\ current_tier = None
    /\ stream = <<>>
    /\ drained = 0

\* the generator of a streaming request before its first __anext__
StreamInit ==
    /\ NoRun
    /\ gen = "created"

BatchInit ==
    /\ attempts = 0
    /\ recipes = <<>>
    /\ seen_ids = {}
    /\ tasks = <<>>
    /\ permits = 0
    /\ completed = <<>>
    /\ populated_recipes = <<>>

\* one streaming request; no batch request is made
Init ==
    /\ url \in Urls
    /\ stubbed \in BOOLEAN
    /\ StreamInit
    /\ count = 0
    /\ dietary_restrictions = <<>>
    /\ exclude_ingredients = <<>>
    /\ pop = "idle"
    /\ BatchInit
    /\ routes = <<>>

Next ==
    \/ GenStart
    \/ ExecuteStart
    \/ TierReport
    \/ TierReturn
    \/ TierRaise
    \/ GenReceive
    \/ GenTimeout
    \/ GenResume
    \/ GenFinish
    \/ GenDisconnect

Spec == Init /\ [][Next]_vars

\* the event loop runs the background task whenever it can take a step:
\* execute() starts once scheduled, a tier call goes on to its next report
\* and a tier call that can return does.  Nothing is assumed of the
\* generator, whose steps wait for the consumer.
SpecFair ==
    Spec /\ WF_vars(ExecuteStart) /\ WF_vars(TierReport) /\ WF_vars(TierReturn)

\* a streaming request whose consumer reads to the end: no disconnect
NextReading ==
    \/ GenStart
    \/ ExecuteStart
    \/ TierReport
    \/ TierReturn
    \/ TierRaise
    \/ GenReceive
    \/ GenTimeout
    \/ GenResume
    \/ GenFinish

\* the event loop runs the background task whenever it can take a step and
\* every tier call ends (a call makes finitely many reports, then returns
\* unless it raises); the consumer keeps asking for the next event, so the
\* generator is started and is resumed after each yield, and a wait_for that
\* delivers no item times out after 0.5 s.  Nothing is assumed of how soon
\* a queued item is delivered.
SpecReading ==
    /\ Init
    /\ [][NextReading]_vars
    /\ WF_vars(ExecuteStart \/ TierReport \/ TierReturn)
    /\ WF_vars(GenStart \/ GenTimeout \/ GenResume \/ GenFinish)

\* one batch request; no streaming request is made
InitBatch ==
    /\ url = BlogUrl
    /\ stubbed = FALSE
    /\ NoRun
    /\ gen = "none"
    /\ count \in (-1)..MaxCount
    /\ dietary_restrictions \in RestrictionChoices
    /\ exclude_ingredients \in ExcludeChoices
    /\ pop = "fetching"
    /\ BatchInit
    /\ routes = <<>>

NextBatch ==
    \/ FetchNothing
    \/ FetchMeal
    \/ Dispatch
    \/ TaskAcquire
    \/ TaskFinish
    \/ GatherReturn

SpecBatch == InitBatch /\ [][NextBatch]_vars

\* every call to the candidate source returns (the client has a timeout)
\* and the coroutine then goes on: the fetch loop takes its next iteration
\* and, once over, populate_recipes goes on to dispatch
SpecBatchFair ==
    SpecBatch /\ WF_vars(FetchNothing \/ FetchMeal) /\ WF_vars(Dispatch)

\* as SpecBatchFair, and the event loop runs every enrichment task: a task
\* waiting at `async with semaphore` enters when a permit is free, every
\* Website-tier call returns or raises so every enrich_recipe ends, and
\* gather resumes populate_recipes once all tasks have ended.  The last
\* conjunct is WF_vars(GatherReturn) written out: GatherReturn is enabled
\* exactly while populate_recipes is at a gather whose tasks have all ended,
\* and taking it leaves that state for good.
SpecBatchEnds ==
    /\ SpecBatchFair
    /\ WF_vars(TaskAcquire)
    /\ WF_vars(TaskFinish)
    /\ []<>~(pop = "enriching" /\ GatherDone)

-----------------------------------------------------------------------------
(* The batch endpoint: populate_discover_recipes *)

\* str(e) of the error of get_settings() when the configuration is incomplete
ConfigErrorText == "validation error for Settings"

\* PopulatedRecipeResponse(**r.to_dict()): the camel-case fields
PopulatedRecipeResponse(r) ==
    [sourceId |-> r.source_id, sourceUrl |-> r.source_url,
     ingredients |-> r.ingredients]

PopulateResponse(success, n, rs, error) ==
    [success |-> success, count |-> n, recipes |-> rs, error |-> error]

\* the count field echoing the requested count
populate_discover_recipesEchoingCount(outcome, rs) ==
    CASE outcome = "returned" ->
           PopulateResponse(TRUE, count,
                            [i \in DOMAIN rs |-> PopulatedRecipeResponse(rs[i])],
                            None)
      [] outcome = "config_error" ->
           PopulateResponse(FALSE, 0, <<>>, ConfigErrorText)

\* the response of populate_discover_recipes: populate_recipes returned
\* `rs`, or RecipePopulator() raised a ValueError
populate_discover_recipes(outcome, rs) ==
    CASE outcome = "returned" ->
           PopulateResponse(TRUE, Len(rs),
                            [i \in DOMAIN rs |-> PopulatedRecipeResponse(rs[i])],
                            None)
      [] outcome = "config_error" ->
           PopulateResponse(FALSE, 0, <<>>, ConfigErrorText)

\* a batch request as the route receives it: nothing is constructed yet
InitRoute ==
    /\ url = BlogUrl
    /\ stubbed = FALSE
    /\ NoRun
    /\ gen = "none"
    /\ count \in (-1)..MaxCount
    /\ dietary_restrictions \in RestrictionChoices
    /\ exclude_ingredients \in ExcludeChoices
    /\ pop = "requested"
    /\ BatchInit
    /\ routes = <<>>

\* RecipePopulator(): WebsiteExtractor() reads the settings, which raises a
\* ValueError when they are incomplete; otherwise populate_recipes is called
PopulatorInit ==
    /\ pop = "requested"
    /\ pop' \in {"fetching", "config_error"}
    /\ UNCHANGED <<count, dietary_restrictions, exclude_ingredients, attempts,
                   recipes, seen_ids, tasks, permits, completed,
                   populated_recipes>>
    /\ UNCHANGED <<streamVars, classVars>>

NextRoute ==
    \/ PopulatorInit
    \/ NextBatch

SpecRoute == InitRoute /\ [][NextRoute]_vars

\* one request of either kind, with the shipped tiers or with test doubles
InitEither == Init \/ InitBatch

\* the steps of whichever request was made: no generator exists in a batch
\* request and no populator in a streaming one
NextEither ==
    \/ Next
    \/ NextBatch

SpecEither == InitEither /\ [][NextEither]_vars

\* the classifier on its own: is_video_url(url) called up to MaxCalls times
\* on one input; no request is made
InitClassify ==
    /\ url \in ClassifierInputs \cup Urls
    /\ stubbed = FALSE
    /\ NoRun
    /\ gen = "none"
    /\ count = 0
    /\ dietary_restrictions = <<>>
    /\ exclude_ingredients = <<>>
    /\ pop = "idle"
    /\ BatchInit
    /\ routes = <<>>

NextClassify == Classify

SpecClassify == InitClassify /\ [][NextClassify]_vars

-----------------------------------------------------------------------------
(* Properties of the fallback driver *)

\* result r is a failure that allows fallback
FailedWithFallback(r) == ~r.success /\ r.should_fallback

\* C1: in a video run, if tiers 1..k-1 each returned success=false with
\* should_fallback=true and tier k returned success=true with a recipe, the
\* driver has returned exactly tier k's recipe and has invoked exactly tiers
\* 1..k of the chain, each once and in chain order
C1_FirstSuccessWins ==
    \A k \in 1..Len(returned) :
        ( /\ chain = VideoTiers
          /\ \A j \in 1..(k - 1) : FailedWithFallback(returned[j])
          /\ returned[k].success
          /\ returned[k].recipe # NoRecipe )
        => /\ task = "Succeeded"
           /\ task_result = returned[k].recipe
           /\ task_result.producer = VideoTiers[k]
           /\ invoked = SubSeq(VideoTiers, 1, k)
           /\ Len(returned) = k

\* two fallbacks, then the third tier succeeds
C1_Witness ==
    /\ chain = VideoTiers
    /\ task = "Succeeded"
    /\ Len(returned) = 3
    /\ FailedWithFallback(returned[1])
    /\ FailedWithFallback(returned[2])
    /\ task_result.producer = "vision"
    /\ invoked = VideoTiers

\* C2: when a tier has returned success=false with should_fallback=false the
\* driver is Failed and that tier is the last one invoked, also when tiers
\* remain in the chain
C2_NoFallbackStops ==
    \A k \in 1..Len(returned) :
        (~returned[k].success /\ ~returned[k].should_fallback)
        => /\ task = "Failed"
           /\ task_result = NoRecipe
           /\ Len(invoked) = k
           /\ Len(returned) = k

\* the first tier of the video chain forbids fallback while two tiers remain
C2_Witness ==
    /\ chain = VideoTiers
    /\ Len(returned) = 1
    /\ ~returned[1].success
    /\ ~returned[1].should_fallback
    /\ task = "Failed"
    /\ invoked = <<"metadata">>

\* C3: when the last tier of the chain has returned success=false the driver
\* is Failed with no recipe whatever should_fallback is, and no tier was
\* invoked after it: every tier of the chain was invoked at most once
C3_LastTierFailureFails ==
    (/\ chain # <<>>
     /\ Len(returned) >= Len(chain)
     /\ ~returned[Len(chain)].success)
    => /\ task = "Failed"
       /\ task_result = NoRecipe
       /\ Len(returned) = Len(chain)
       /\ invoked = chain

\* the last tier of the video chain fails and asks for fallback
C3_Witness ==
    /\ chain = VideoTiers
    /\ Len(returned) = 3
    /\ ~returned[3].success
    /\ returned[3].should_fallback
    /\ task = "Failed"

-----------------------------------------------------------------------------
(* Properties of the event stream *)

IsProgress(e) == e.type = "progress"

IsTerminal(e) == e.type \in {"complete", "error"}

\* the (message, percent) pairs of the progress events of a stream
ProgressPairs(events) ==
    LET ps == SelectSeq(events, IsProgress)
    IN  [i \in 1..Len(ps) |-> [message |-> ps[i].message, percent |-> ps[i].percent]]

TerminalYielded == gen \in {"yield_terminal", "closed"}

\* C4: a stream is progress events followed by exactly one terminal event:
\* only the last event can be terminal, it is terminal once the generator
\* has got past the task's result, and a stream read to its end has one
C4_OneTerminalEventLast ==
    /\ \A i \in 1..(Len(stream) - 1) : IsProgress(stream[i])
    /\ TerminalYielded => (stream # <<>> /\ IsTerminal(stream[Len(stream)]))
    /\ ~TerminalYielded => \A i \in 1..Len(stream) : IsProgress(stream[i])

\* a stream read to its end: progress events, then complete
C4_Witness ==
    /\ gen = "closed"
    /\ Len(stream) >= 3
    /\ stream[Len(stream)].type = "complete"
    /\ IsProgress(stream[1])

\* C5: the terminal event is complete with the driver's recipe exactly when
\* the pipeline returned a recipe; otherwise, also when the task raised, it
\* is error with a message
C5_TerminalMatchesOutcome ==
    TerminalYielded =>
        LET e == stream[Len(stream)]
        IN  /\ TaskDone
            /\ (e.type = "complete") <=> (task = "Succeeded")
            /\ task = "Succeeded" => e = SSECompleteEvent(task_result)
            /\ task # "Succeeded" => (e.type = "error" /\ e.message # None)

\* the task raised and the stream ended with an error event
C5_Witness ==
    /\ gen = "closed"
    /\ task = "Raised"
    /\ invoked # <<>>
    /\ stream[Len(stream)] = SSEErrorEvent(task_exception)

\* C6: once the terminal event is out, the (message, percent) pairs of the
\* progress events are exactly the pairs passed to the callback, in order
C6_ProgressForwardedInOrder ==
    TerminalYielded => ProgressPairs(stream) = reported

\* events were still queued when the polling loop saw the task done
C6_Witness ==
    /\ gen = "closed"
    /\ drained >= 2
    /\ Len(reported) > drained
    /\ ProgressPairs(stream) = reported

-----------------------------------------------------------------------------
(* Properties of the batch enrichment *)

Running == {i \in DOMAIN tasks : tasks[i] = "running"}

\* the tasks whose enrichment succeeded and whose recipe passes the
\* ingredient-exclusion filter
Passing ==
    {i \in DOMAIN tasks :
        /\ tasks[i] = "enriched"
        /\ ~Excluded(PopulatedRecipe(recipes[i]), exclude_ingredients)}

\* C7: no two recipes of the returned list share a source_id
C7_UniqueSourceIds ==
    pop = "returned" =>
        \A i, j \in 1..Len(populated_recipes) :
            i # j => populated_recipes[i].source_id # populated_recipes[j].source_id

\* C8: for count >= 1 the returned list has exactly min(count, S) elements,
\* S being the number of kept candidates that were enriched and pass the
\* ingredient-exclusion filter
C8_ReturnsMinCountPassing ==
    (pop = "returned" /\ count >= 1) =>
        Len(populated_recipes) = Min(count, Cardinality(Passing))

\* more candidates pass than were asked for
C8_Witness ==
    /\ pop = "returned"
    /\ count >= 1
    /\ Cardinality(Passing) > count
    /\ Len(populated_recipes) = count

\* C9: at most max_concurrent extract calls are in flight
C9_AtMostKInFlight == Cardinality(Running) <= DefaultMaxConcurrent

\* the permits are used up while a task still waits
C9_Witness ==
    /\ Cardinality(Running) = DefaultMaxConcurrent
    /\ \E i \in DOMAIN tasks : tasks[i] = "waiting"

\* C10: when a task failed or raised, the call still returns a list, every
\* task has run to its outcome, and every passing sibling is in the list
\* unless the list is full
C10_FaultsAreIsolated ==
    (pop = "returned" /\ \E i \in DOMAIN tasks : tasks[i] \in {"failed", "raised"}) =>
        /\ \A j \in DOMAIN tasks : tasks[j] \in Outcomes
        /\ \A j \in Passing :
              \/ \E k \in 1..Len(populated_recipes) :
                    populated_recipes[k] = PopulatedRecipe(recipes[j])
              \/ Len(populated_recipes) >= count

\* one task raised, another failed, and a sibling's recipe was returned
C10_Witness ==
    /\ pop = "returned"
    /\ \E i \in DOMAIN tasks : tasks[i] = "raised"
    /\ \E i \in DOMAIN tasks : tasks[i] = "failed"
    /\ Passing # {}
    /\ Len(populated_recipes) = Cardinality(Passing)
    /\ Len(populated_recipes) < count

-----------------------------------------------------------------------------
(* Properties of the classifier *)

\* index of the last "@" of a netloc, 0 when there is none
RECURSIVE LastAt(_, _)
LastAt(n, i) ==
    IF i = 0 THEN 0 ELSE IF n[i] = "@" THEN i ELSE LastAt(n, i - 1)

PortTokens == {":443"}

\* the domain of a URL: the host of its authority, which is the netloc
\* without the userinfo and the port, in lower case
DomainOf(u) ==
    LET n      == urlparse(u).netloc
        noUser == SubSeq(n, LastAt(n, Len(n)) + 1, Len(n))
        noPort == IF noUser # <<>> /\ noUser[Len(noUser)] \in PortTokens
                  THEN SubSeq(noUser, 1, Len(noUser) - 1) ELSE noUser
    IN  Lower(noPort)

StripWww(d) == IF d # <<>> /\ Head(d) = "www." THEN Tail(d) ELSE d

\* the route the rule of the claim gives a URL: Video (TRUE) when the domain
\* without a leading www. is a video host or the path holds a fragment
RuleSaysVideo(u) ==
    /\ ~urlparse(u).raises
    /\ \/ StripWww(DomainOf(u)) \in VIDEO_DOMAINS
       \/ \E p \in 1..Len(VIDEO_PATH_PATTERNS) :
             Contains(Lower(urlparse(u).path), VIDEO_PATH_PATTERNS[p])

\* C11: every call of the classifier returns Video exactly for the URLs
\* whose domain, leading www. stripped, is a known video host or whose path
\* contains a video-indicating fragment, and Website for every other URL
C11_ClassifierFollowsRule ==
    \A i \in 1..Len(routes) : routes[i] = RuleSaysVideo(url)

-----------------------------------------------------------------------------
(* Properties of the returned recipe and of the failure outcome *)

\* C13: a recipe the driver returns from the shipped tiers has the request
\* URL as source_url and the tag of the tier that succeeded, which is the
\* last one invoked, as method_used; when tier 1 of the video chain failed
\* allowing fallback and tier 2 succeeded, method_used is tier 2's tag and
\* tier 3 was not invoked
C13_RecipeDecorated ==
    /\ (~stubbed /\ task = "Succeeded") =>
          /\ task_result.source_url = url
          /\ task_result.method_used = invoked[Len(invoked)]
          /\ task_result.method_used \in {"metadata", "audio", "vision", "website"}
    /\ (/\ chain = VideoTiers
        /\ Len(returned) >= 2
        /\ FailedWithFallback(returned[1]) /\ ~Usable(returned[1])
        /\ Usable(returned[2])) =>
          /\ task = "Succeeded"
          /\ task_result.method_used = chain[2]
          /\ invoked = <<chain[1], chain[2]>>

\* the shipped metadata tier failed and the shipped audio tier succeeded
C13_Witness ==
    /\ ~stubbed
    /\ task = "Succeeded"
    /\ invoked = <<"metadata", "audio">>
    /\ FailedWithFallback(returned[1])
    /\ task_result = TierRecipe("audio", url)

\* C14: when the driver ended Failed, the failure outcome given to the
\* caller carries the error of the most recently failed tier (stated for the
\* shipped tiers, whose failures all carry an error text)
C14_FailureCarriesLastError ==
    (~stubbed /\ task = "Failed" /\ TerminalYielded) =>
        /\ stream[Len(stream)].type = "error"
        /\ stream[Len(stream)].message = returned[Len(returned)].error

-----------------------------------------------------------------------------
(* Properties of the order of the tiers and of the route *)

\* C15: in one run no tier's extract is started twice, a tier is started
\* only when every tier started before it has returned (at most one is
\* active), and the video tiers start in the order metadata, audio, vision
C15_TiersSequentialInOrder ==
    /\ \A i, j \in 1..Len(invoked) : i # j => invoked[i] # invoked[j]
    /\ Len(invoked) <= Len(returned) + 1
    /\ (task = "TierRunning") => Len(invoked) = Len(returned) + 1
    /\ chain = VideoTiers =>
          invoked = SubSeq(<<"metadata", "audio", "vision">>, 1, Len(invoked))

\* the third tier runs after the first two have returned, inside the
\* background task of a generator that has already forwarded an event
C15_Witness ==
    /\ task = "TierRunning"
    /\ invoked = <<"metadata", "audio", "vision">>
    /\ Len(returned) = 2
    /\ stream # <<>>

-----------------------------------------------------------------------------
(* Properties of the progress events *)

\* C16: every progress event of the stream, yielded by the polling loop or
\* by the drain loop, has the tier tag the keyword rule gives its own
\* message, the previous event's tag (None for the first) when no keyword
\* occurs in it
C16_EveryEventTaggedByRule ==
    \A i \in 1..Len(stream) :
        IsProgress(stream[i]) =>
            stream[i].tier =
                TierTag(stream[i].message,
                        IF i = 1 THEN None ELSE stream[i - 1].tier)

\* C17: every progress event of the stream, and every report a tier made,
\* has a percent between 0 and 1 (0 and 10 tenths)
C17_PercentInUnitInterval ==
    /\ \A i \in 1..Len(stream) :
          IsProgress(stream[i]) => stream[i].percent \in 0..10
    /\ \A i \in 1..Len(reported) : reported[i].percent \in 0..10

\* all three shipped video tiers ran and the stream holds events from the
\* first report (0.1) of the metadata tier to the last one (1.0) of the
\* vision tier
C17_Witness ==
    /\ ~stubbed
    /\ invoked = <<"metadata", "audio", "vision">>
    /\ \E i, j, k \in 1..Len(stream) :
          /\ i < j /\ j < k
          /\ IsProgress(stream[i]) /\ stream[i].percent = 1
          /\ IsProgress(stream[j]) /\ stream[j].percent = 6
          /\ IsProgress(stream[k]) /\ stream[k].percent = 10

-----------------------------------------------------------------------------
(* Properties of the attempt budget *)

\* C18: while populate_recipes(count) fetches candidates, the number of
\* calls made to the candidate source is at most count * 5
C18_AtMostFiveCallsPerRequested ==
    (pop = "fetching" /\ count >= 1) => attempts <= count * 5

\* C18 amended: the number of calls is at most five times the oversample
\* target min(count * 2, 50), and none is made for a count below 1
C18_AtMostFiveCallsPerOversampled ==
    pop = "fetching" =>
        attempts <= (IF count >= 1 THEN Min(count * 2, 50) * 5 ELSE 0)

\* one recipe was asked for and the source was called ten times
C18_Witness ==
    /\ pop = "fetching"
    /\ count = 1
    /\ attempts = 10
    /\ Len(recipes) < 2

-----------------------------------------------------------------------------
(* Properties of error containment *)

\* the PopulatedRecipes of the meals kept by the fetch loop
KeptPopulated == { PopulatedRecipe(recipes[i]) : i \in 1..Len(recipes) }

\* C19: with the shipped tiers, execute() does not raise once a tier's
\* extract was called, and it ends with a Recipe (Succeeded) or with None
\* (Failed); populate_recipes ends with a list of PopulatedRecipes, at most
\* count of them and possibly none, whatever fetches and enrichments failed
\* or raised
C19_NoFaultReachesCaller ==
    /\ (~stubbed /\ invoked # <<>>) => task # "Raised"
    /\ (~stubbed /\ task = "Succeeded") => task_result # NoRecipe
    /\ (~stubbed /\ task = "Failed") => task_result = NoRecipe
    /\ pop = "returned" =>
          /\ \A k \in 1..Len(populated_recipes) :
                populated_recipes[k] \in KeptPopulated
          /\ Len(populated_recipes) <= Len(recipes)
          /\ count >= 1 => Len(populated_recipes) <= count

\* the body of the shipped vision tier raised after the first two tiers
\* had failed, and execute() returned None
C19_Witness ==
    /\ ~stubbed
    /\ task = "Failed"
    /\ invoked = <<"metadata", "audio", "vision">>
    /\ returned[3].error = ExceptionText("vision")
    /\ task_result = NoRecipe

\* C20: for a URL the classifier calls Website the only extract() ever
\* called is the website tier's, once, and it has been called whenever a
\* tier runs or execute() has returned; for a URL it calls Video no call
\* is made to a tier outside metadata, audio, vision
C20_RouteAndChainFixed ==
    /\ ~is_video_url(url) =>
          /\ invoked \in {<<>>, <<"website">>}
          /\ task \in {"TierRunning", "Succeeded", "Failed"} =>
                invoked = <<"website">>
    /\ is_video_url(url) =>
          \A i \in 1..Len(invoked) : invoked[i] \in {"metadata", "audio", "vision"}

\* on the website route the tier failed asking for fallback, and the run
\* ended Failed with no other tier called
C20_Witness ==
    /\ ~is_video_url(url)
    /\ task = "Failed"
    /\ Len(returned) = 1
    /\ returned[1].should_fallback
    /\ invoked = <<"website">>

-----------------------------------------------------------------------------
(* Properties of the background task under a slow or absent consumer *)

\* C21: a running tier can always make its next progress report, whatever
\* the generator does and however many events are unread; no step of the
\* generator after the one that created the task changes the state of the
\* driver; and a running tier is always followed by the end of the run,
\* Succeeded or Failed when the tier calls return, also when the consumer
\* has stopped reading or has disconnected
C21_NotBlockedNotCancelled ==
    /\ [](task = "TierRunning" /\ tier_step < MaxReportsOf(CurrentTier)
            => ENABLED TierReport)
    /\ [][(gen # "created" /\ gen' # gen) =>
            UNCHANGED <<task, chain, tier_idx, tier_step, invoked, returned,
                        reported, last_error, task_result, task_exception>>]_vars
    /\ (task = "TierRunning") ~>
            (task \in {"Succeeded", "Failed"} \/ (stubbed /\ task = "Raised"))

\* the consumer disconnected without reading while the shipped audio tier
\* runs, and the tier has gone on reporting
C21_Witness ==
    /\ ~stubbed
    /\ gen = "cancelled"
    /\ stream = <<>>
    /\ task = "TierRunning"
    /\ CurrentTier = "audio"
    /\ Len(progress_queue) >= 3

-----------------------------------------------------------------------------
(* Properties of the selection of the batch result *)

\* the first n elements of s
FirstN(s, n) == SubSeq(s, 1, Min(n, Len(s)))

\* the PopulatedRecipes of the passing tasks among `order`, in that order
PassingIn(order) ==
    LET ps == SelectSeq(order, LAMBDA i : i \in Passing)
    IN  [k \in 1..Len(ps) |-> PopulatedRecipe(recipes[ps[k]])]

\* the tasks in the order in which their candidates were fetched
FetchOrder == [i \in 1..Len(tasks) |-> i]

\* C22: the returned list is the first count passing results in the order
\* in which the enrichment tasks completed
C22_FirstCountInCompletionOrder ==
    (pop = "returned" /\ count >= 1) =>
        populated_recipes = FirstN(PassingIn(completed), count)

\* C22 amended: the returned list is the first count passing results in the
\* order in which the candidates were fetched
C22_FirstCountInFetchOrder ==
    (pop = "returned" /\ count >= 1) =>
        populated_recipes = FirstN(PassingIn(FetchOrder), count)

\* two recipes were returned whose tasks completed in the opposite order,
\* and a third passing result was dropped
C22_Witness ==
    /\ pop = "returned"
    /\ count = 2
    /\ Len(populated_recipes) = 2
    /\ Cardinality(Passing) >= 3
    /\ populated_recipes # FirstN(PassingIn(completed), count)
    /\ \E a, b \in 1..Len(completed) :
          /\ a < b
          /\ completed[a] > completed[b]
          /\ populated_recipes[1] = PopulatedRecipe(recipes[completed[b]])
          /\ populated_recipes[2] = PopulatedRecipe(recipes[completed[a]])

\* C23: one enrichment task is dispatched per candidate kept by the fetch
\* loop, and when populate_recipes has returned every one of them has
\* ended, each once; a passing result left out of the list belongs to a
\* task that ran to its end
C23_AllDispatchedAllAwaited ==
    /\ pop = "enriching" => Len(tasks) = Len(recipes)
    /\ (pop = "returned" /\ recipes # <<>>) =>
          /\ Len(tasks) = Len(recipes)
          /\ \A i \in DOMAIN tasks : tasks[i] \in Outcomes
          /\ Len(completed) = Len(tasks)
          /\ \A i \in DOMAIN tasks : \E k \in 1..Len(completed) : completed[k] = i

\* one recipe was asked for and two candidates were dispatched; the task of
\* the first ended first and its result was returned, the second task ran
\* to its end after it and its passing result was dropped
C23_Witness ==
    /\ pop = "returned"
    /\ count = 1
    /\ Len(tasks) = 2
    /\ completed = <<1, 2>>
    /\ Cardinality(Passing) = 2
    /\ populated_recipes = <<PopulatedRecipe(recipes[1])>>

\* some excluded name is, ignoring case, a substring of the name of one
\* single ingredient of the recipe
ExcludedBySingleIngredient(result, exclude) ==
    \E k \in 1..Len(exclude), j \in 1..Len(result.ingredients) :
        Contains(Lower(result.ingredients[j]), Lower(exclude[k]))

\* the PopulatedRecipes, in fetch order, of the enriched tasks that no
\* single ingredient excludes
KeptBySingleIngredient ==
    LET ps == SelectSeq(FetchOrder,
                  LAMBDA i : /\ tasks[i] = "enriched"
                             /\ ~ExcludedBySingleIngredient(
                                    PopulatedRecipe(recipes[i]), exclude_ingredients))
    IN  [k \in 1..Len(ps) |-> PopulatedRecipe(recipes[ps[k]])]

\* C24: an enriched recipe is dropped by the exclusion filter exactly when
\* an excluded name is a case-insensitive substring of the name of a single
\* ingredient, so the returned list is the first count of the others
C24_DroppedIffSingleIngredientMatches ==
    (pop = "returned" /\ count >= 1) =>
        populated_recipes = FirstN(KeptBySingleIngredient, count)

-----------------------------------------------------------------------------
(* Properties of the fetch loop *)

\* the oversample target of a request for count recipes
OversampleTarget == IF count >= 1 THEN Min(count * 2, 50) ELSE 0

\* C25: the candidate source is called only while fewer than
\* min(count * 2, 50) candidates have been kept, so at most that many are
\* kept and at most that many enrichment tasks are dispatched
C25_StopsAtOversampleTarget ==
    /\ [][attempts' = attempts + 1 => Len(recipes) < OversampleTarget]_vars
    /\ [](Len(recipes) <= OversampleTarget /\ Len(tasks) <= OversampleTarget)

\* one recipe was asked for; the second candidate was kept on the second
\* call and the loop is over with eight attempts of the budget unused
C25_Witness ==
    /\ pop = "fetching"
    /\ count = 1
    /\ Len(recipes) = 2
    /\ attempts = 2
    /\ FetchLoopOver

\* the identifiers of the candidates kept so far
KeptIds == { recipes[i].id : i \in 1..Len(recipes) }

\* C26: a candidate is kept only if its identifier was not seen before in
\* this run, so the kept candidates, which are the ones dispatched, have
\* pairwise different identifiers, each of them seen
C26_NoIdentifierTwice ==
    /\ [][Len(recipes') > Len(recipes) =>
            /\ recipes'[Len(recipes')].id \notin seen_ids
            /\ recipes'[Len(recipes')].id \in seen_ids']_vars
    /\ [](\A i, j \in 1..Len(recipes) : i # j => recipes[i].id # recipes[j].id)
    /\ [](pop = "fetching" => KeptIds \subseteq seen_ids)

\* a candidate was seen and rejected by the coarse filter, another was
\* kept, and at least one call returned an identifier already seen
C26_Witness ==
    /\ pop = "fetching"
    /\ dietary_restrictions # <<>>
    /\ KeptIds # {}
    /\ seen_ids \ KeptIds # {}
    /\ attempts > Cardinality(seen_ids) + 1
    /\ Len(recipes) = Cardinality(KeptIds)

\* a requested restriction excludes the category: vegetarian excludes the
\* meat and fish categories, vegan those and dessert
CategoryExcluded(category, restrictions) ==
    \E r \in 1..Len(restrictions), c \in 1..Len(category) :
        \/ /\ LowerTok(restrictions[r]) = "vegetarian"
           /\ LowerTok(category[c]) \in
                 {"beef", "chicken", "lamb", "pork", "goat", "seafood"}
        \/ /\ LowerTok(restrictions[r]) = "vegan"
           /\ LowerTok(category[c]) \in
                 {"beef", "chicken", "lamb", "pork", "goat", "seafood", "dessert"}

\* C27: no candidate whose category a requested restriction excludes is
\* ever kept for enrichment or returned, and with no restrictions every
\* candidate with a new identifier is kept
C27_CoarseFilterBeforeEnrichment ==
    /\ [](\A i \in 1..Len(recipes) :
            ~CategoryExcluded(recipes[i].category, dietary_restrictions))
    /\ [](\A k \in 1..Len(populated_recipes) :
            \E i \in 1..Len(recipes) :
                /\ populated_recipes[k] = PopulatedRecipe(recipes[i])
                /\ ~CategoryExcluded(recipes[i].category, dietary_restrictions))
    /\ [][(dietary_restrictions = <<>> /\ seen_ids' # seen_ids /\ pop' = "fetching")
            => Len(recipes') = Len(recipes) + 1]_vars

\* vegan was requested; the beef and the dessert candidate were fetched and
\* rejected, the other two were kept
C27_Witness ==
    /\ pop = "fetching"
    /\ dietary_restrictions = <<"vegan">>
    /\ seen_ids = {"1", "2", "3", "4"}
    /\ KeptIds = {"2", "3"}

\* C28: every iteration of the fetch loop, whatever the source answered,
\* uses one attempt, and the fetch phase always comes to an end
C28_FetchPhaseTerminates ==
    /\ [][(pop = "fetching" /\ pop' = "fetching") => attempts' = attempts + 1]_vars
    /\ [](pop = "fetching" => attempts <= MaxAttempts \/ MaxAttempts < 0)
    /\ (pop = "fetching") ~> (pop # "fetching")

\* the source failed on every call: nothing was seen, the budget of ten
\* calls for one requested recipe is used up and the loop is over
C28_Witness ==
    /\ pop = "fetching"
    /\ count = 1
    /\ attempts = 10
    /\ seen_ids = {}
    /\ recipes = <<>>
    /\ FetchLoopOver

-----------------------------------------------------------------------------
(* Properties of the results of the shipped tiers *)

\* C29: every result a shipped tier returned has a recipe exactly when
\* success is true and an error exactly when success is false
C29_RecipeIffSuccessErrorIffFailure ==
    ~stubbed =>
        \A i \in 1..Len(returned) :
            /\ (returned[i].recipe # NoRecipe) <=> returned[i].success
            /\ (returned[i].error # None) <=> ~returned[i].success

\* one run saw an early failure return (metadata), a caught exception
\* (audio) and a success (vision)
C29_Witness ==
    /\ ~stubbed
    /\ Len(returned) = 3
    /\ returned[1].error = FailureText("metadata", 1)
    /\ returned[2].error = ExceptionText("audio")
    /\ returned[3].success
    /\ returned[3].recipe = TierRecipe("vision", url)

\* C30: with the shipped tiers every failed result of metadata and audio asks
\* for the next tier and every failed result of vision does not (the
\* caught-exception result included); a video run that failed has invoked
\* metadata, audio and vision once each, in that order; and a failed result
\* of vision ends the run as failed in the same step
C30_ShippedFallbackFlags ==
    /\ [](~stubbed /\ chain = VideoTiers =>
            \A i \in 1..Len(returned) :
                ~returned[i].success =>
                    /\ invoked[i] \in {"metadata", "audio"}
                          => returned[i].should_fallback
                    /\ invoked[i] = "vision" => ~returned[i].should_fallback)
    /\ [](~stubbed /\ chain = VideoTiers /\ task = "Failed"
            => invoked = VideoTiers)
    /\ [][(/\ ~stubbed
           /\ task = "TierRunning"
           /\ chain = VideoTiers
           /\ CurrentTier = "vision"
           /\ Len(returned') = Len(returned) + 1
           /\ ~returned'[Len(returned')].success)
          => (task' = "Failed" /\ invoked' = invoked)]_vars

\* a shipped video run failed after metadata and audio each failed through
\* their except clause and vision failed through its own
C30_Witness ==
    /\ ~stubbed
    /\ chain = VideoTiers
    /\ task = "Failed"
    /\ invoked = VideoTiers
    /\ Len(returned) = 3
    /\ returned[1].error = ExceptionText("metadata")
    /\ returned[2].error = ExceptionText("audio")
    /\ returned[3].error = ExceptionText("vision")
    /\ ~returned[3].should_fallback

-----------------------------------------------------------------------------
(* Properties of the driver on results that say success without a recipe *)

\* C31: the driver returns a recipe only from a result with success=true and
\* a recipe; a result with success=true and no recipe never ends the run as
\* succeeded: on a video run its error becomes last_error and the next tier
\* is invoked exactly when the result has should_fallback (and a tier is
\* left), on a website run the run ends as failed
C31_SuccessWithoutRecipeIsFailure ==
    /\ [](task = "Succeeded" =>
            /\ Len(returned) > 0
            /\ Usable(returned[Len(returned)])
            /\ task_result = returned[Len(returned)].recipe)
    /\ [][(/\ task = "TierRunning"
           /\ Len(returned') = Len(returned) + 1
           /\ returned'[Len(returned')].success
           /\ returned'[Len(returned')].recipe = NoRecipe)
          => /\ task' # "Succeeded"
             /\ task_result' = task_result
             /\ chain = VideoTiers =>
                  /\ last_error' = returned'[Len(returned')].error
                  /\ IF returned'[Len(returned')].should_fallback
                        /\ tier_idx < Len(chain)
                     THEN /\ task' = "TierRunning"
                          /\ tier_idx' = tier_idx + 1
                          /\ invoked' = Append(invoked, chain[tier_idx + 1])
                     ELSE /\ task' = "Failed"
                          /\ invoked' = invoked
             /\ chain # VideoTiers =>
                  /\ task' = "Failed"
                  /\ invoked' = invoked]_vars

\* metadata said success without a recipe and asked for the next tier, audio
\* said success without a recipe and did not: the run failed after audio
C31_Witness ==
    /\ stubbed
    /\ chain = VideoTiers
    /\ Len(returned) = 2
    /\ returned[1].success /\ returned[1].recipe = NoRecipe
    /\ returned[1].should_fallback
    /\ returned[2].success /\ returned[2].recipe = NoRecipe
    /\ ~returned[2].should_fallback
    /\ returned[2].error = ExceptionText("audio")
    /\ last_error = ExceptionText("audio")
    /\ invoked = <<"metadata", "audio">>
    /\ task = "Failed"

-----------------------------------------------------------------------------
(* Termination of the stream *)

\* C32: for a consumer that reads to the end, with every tier call ending,
\* the generator eventually has yielded its terminal event and is exhausted;
\* a generator waiting on the queue when the background task is done leaves
\* the wait, and once it has left the polling loop it never waits on the
\* queue again
C32_StreamAlwaysEnds ==
    /\ <>(gen = "closed" /\ stream # <<>> /\ IsTerminal(stream[Len(stream)]))
    /\ (TaskDone /\ gen = "waiting") ~> (gen # "waiting")
    /\ [][(TaskDone /\ gen # "waiting") => gen' # "waiting"]_vars

\* a stream read to its end, part of it from the polling loop and part from
\* the drain loop, after the task failed
C32_Witness ==
    /\ gen = "closed"
    /\ task = "Failed"
    /\ Len(stream) >= 3
    /\ drained >= 1
    /\ drained < Len(stream) - 1
    /\ stream[Len(stream)].type = "error"
    /\ progress_queue = <<>>

-----------------------------------------------------------------------------
(* Properties of the semaphore of the batch fan-out *)

\* the enrichments in flight: tasks inside `async with semaphore`
InFlight == {i \in DOMAIN tasks : tasks[i] = "running"}

\* C33: during the fan-out the permits held equal the enrichments in flight;
\* a task ends only from inside the semaphore and its ending, whatever the
\* outcome, gives one permit back; populate_recipes eventually returns, and
\* by then every dispatched task has had a permit and has ended
C33_PermitsReleasedNoStarvation ==
    /\ [](pop = "enriching" =>
            /\ permits >= 0
            /\ DefaultMaxConcurrent - permits = Cardinality(InFlight))
    /\ [][(pop = "enriching" /\ pop' = "enriching") =>
            \A i \in DOMAIN tasks :
                (tasks[i] \notin Outcomes /\ tasks'[i] \in Outcomes) =>
                    /\ tasks[i] = "running"
                    /\ permits' = permits + 1]_vars
    /\ [](pop = "returned" =>
            /\ \A i \in DOMAIN tasks : tasks[i] \in Outcomes
            /\ tasks # <<>> => permits = DefaultMaxConcurrent)
    /\ <>(pop = "returned")

\* more tasks than permits were dispatched, they ended in all three ways,
\* and populate_recipes returned with every permit back
C33_Witness ==
    /\ pop = "returned"
    /\ Len(tasks) > DefaultMaxConcurrent
    /\ \A o \in Outcomes : \E i \in DOMAIN tasks : tasks[i] = o
    /\ permits = DefaultMaxConcurrent
    /\ Len(completed) = Len(tasks)

-----------------------------------------------------------------------------
(* The single-shot endpoint against the streaming endpoint *)

\* the response of the single-shot endpoint to the run of this state:
\* execute(url) is a function of the URL and of what the tiers return, so
\* with the same URL and the same tier outcomes it ends as the task of the
\* stream did
SingleShotResponse == extract_recipe(task, task_result, task_exception)

-----------------------------------------------------------------------------
(* Order of the tier tags of a stream *)

\* the position of a tier tag in chain order; an absent tag comes first
TagRank(tag) ==
    CASE tag = None       -> 0
      [] tag = "metadata" -> 1
      [] tag = "audio"    -> 2
      [] tag = "vision"   -> 3
      [] tag = "website"  -> 4

\* the tags of the progress events of the stream, in stream order
StreamTags ==
    LET ps == SelectSeq(stream, IsProgress)
    IN  [i \in 1..Len(ps) |-> ps[i].tier]

\* C35: with the shipped tiers, no progress event without a tag follows one
\* with a tag; in the stream of a video URL no tag is followed by a tag of an
\* earlier tier of the chain and no tag is website
C35_TagsNeverRevert ==
    ~stubbed =>
        /\ \A i, j \in DOMAIN StreamTags :
              (i < j /\ StreamTags[i] # None) => StreamTags[j] # None
        /\ is_video_url(url) =>
              /\ \A i, j \in DOMAIN StreamTags :
                    i < j => TagRank(StreamTags[i]) <= TagRank(StreamTags[j])
              /\ \A i \in DOMAIN StreamTags : StreamTags[i] # "website"

\* a shipped video run whose stream carries, in this order, events tagged
\* metadata, audio and vision, one of them without a keyword of its own
\* and one taken by the drain loop
C35_Witness ==
    /\ ~stubbed
    /\ is_video_url(url)
    /\ drained >= 1
    /\ \E i, j, k \in DOMAIN StreamTags :
          /\ i < j /\ j < k
          /\ StreamTags[i] = "metadata"
          /\ StreamTags[j] = "audio"
          /\ StreamTags[k] = "vision"
    /\ \E i \in DOMAIN stream :
          /\ IsProgress(stream[i])
          /\ stream[i].tier # TierTag(stream[i].message, None)

-----------------------------------------------------------------------------
(* The progress event with percent 1.0 *)

\* the positions of the progress events with percent 1.0 (tenths: 10)
FullPercentEvents ==
    {i \in DOMAIN stream : IsProgress(stream[i]) /\ stream[i].percent = 10}

\* C36: with the shipped tiers a stream has at most one progress event with
\* percent 1.0, and a stream that has one and has its terminal event ends
\* with complete, never with error
C36_FullPercentOnlyBeforeComplete ==
    ~stubbed =>
        /\ Cardinality(FullPercentEvents) <= 1
        /\ (TerminalYielded /\ FullPercentEvents # {}) =>
              stream[Len(stream)].type = "complete"

-----------------------------------------------------------------------------
(* Properties of the batch response *)

RouteEnded == pop \in {"returned", "config_error"}

\* the response of the batch endpoint to the request of this state
RouteResponse == populate_discover_recipes(pop, populated_recipes)

\* C37: when populate_recipes has returned, the response has success=true,
\* no error, one entry per returned recipe and a count field equal to the
\* length of its recipes list, zero recipes included; a response with
\* success=false has count 0, no recipes and an error message
C37_BatchResponseShape ==
    /\ pop = "returned" =>
          /\ RouteResponse.success
          /\ RouteResponse.error = None
          /\ Len(RouteResponse.recipes) = Len(populated_recipes)
          /\ RouteResponse.count = Len(RouteResponse.recipes)
    /\ (RouteEnded /\ ~RouteResponse.success) =>
          /\ pop = "config_error"
          /\ RouteResponse.count = 0
          /\ RouteResponse.recipes = <<>>
          /\ RouteResponse.error # None

\* two recipes were asked for, enrichments were dispatched and none gave a
\* recipe: the response is a success with count 0
C37_Witness ==
    /\ pop = "returned"
    /\ count = 2
    /\ tasks # <<>>
    /\ populated_recipes = <<>>
    /\ RouteResponse = PopulateResponse(TRUE, 0, <<>>, None)

-----------------------------------------------------------------------------
(* A request for no recipes *)

\* C38: for count <= 0 no call to the candidate source is made and no meal
\* is kept, no enrichment task is dispatched, the only step populate_recipes
\* can take is to return, and what it returns is the empty list
C38_NothingForNonPositiveCount ==
    /\ [](count <= 0 =>
            /\ pop \in {"fetching", "returned"}
            /\ attempts = 0
            /\ seen_ids = {}
            /\ recipes = <<>>
            /\ tasks = <<>>
            /\ completed = <<>>
            /\ populated_recipes = <<>>
            /\ pop = "fetching" => ENABLED Dispatch)
    /\ [][count <= 0 => (pop = "fetching" /\ pop' = "returned")]_vars

\* count = -1: populate_recipes has returned the empty list
C38_Witness ==
    /\ count = -1
    /\ pop = "returned"
    /\ populated_recipes = <<>>
    /\ attempts = 0
    /\ tasks = <<>>

=============================================================================
